---------------------------- MODULE Spec2Model ----------------------------
(***************************************************************************)
(* The normalized inventory store of the capstone dashboard                *)
(* (src/src/capstone/store/slices/inventorySlice.ts): a Redux Toolkit      *)
(* slice over an entity adapter sorted by name, four async thunks          *)
(* (fetchInventory, addProduct, updateProduct, deleteProduct) and four     *)
(* synchronous reducers (setFilter, clearFilters, setSort, updateStock).   *)
(* The same store holds the auth slice (authSlice.ts): the thunks login    *)
(* and logout and the reducers setCredentials, clearError, updateProfile.  *)
(*                                                                         *)
(* Strings the code computes on (ids, names, skus) are sequences of        *)
(* one-character strings, so that padStart, template literals and          *)
(* localeCompare are computed rather than assumed.  Strings the code only  *)
(* compares for equality (status tags, categories, messages, action        *)
(* types) are TLA+ strings.                                                *)
(***************************************************************************)
EXTENDS Integers, Sequences, FiniteSets, TLC

\* ------------------------------------------------------------------ bounds
\* Thunks dispatched in one behaviour (each gets the next requestId).
MaxRequests == 2
\* Largest count passed to fetchInventory(count).
MaxCount == 2
\* Milliseconds the clock advances in one behaviour.
MaxTicks == 1

\* Actions dispatched to an exercise's reducer in one behaviour.
MaxActions == 3
\* Calls of fetchData in one behaviour of useFetchUsers.
MaxFetches == 3

\* Date.now() at the start of a behaviour, in milliseconds.  (The real value
\* has 13 digits; this one keeps within the checker's 32-bit integers and is,
\* like the real one, longer than a padded index.)
Epoch == 1700000000

\* ------------------------------------------------------------- JS strings
Null == "<null>"

\* null where the value, when there is one, is an object.
NullObject == <<>>

DigitChars == <<"0", "1", "2", "3", "4", "5", "6", "7", "8", "9">>

\* String(n) for a non-negative integer n.
RECURSIVE ToStr(_)
ToStr(n) ==
    IF n < 10 THEN <<DigitChars[n + 1]>>
    ELSE ToStr(n \div 10) \o <<DigitChars[(n % 10) + 1]>>

\* String.prototype.padStart(targetLength, padChar).
RECURSIVE PadStart(_, _, _)
PadStart(s, targetLength, padChar) ==
    IF Len(s) >= targetLength THEN s
    ELSE PadStart(<<padChar>> \o s, targetLength, padChar)

\* Characters of the model's strings in the primary (letter) order of the
\* default collation: space and punctuation, digits, then letters.
PrimaryOrder ==
    <<" ", "-", "0", "1", "2", "3", "4", "5", "6", "7", "8", "9",
      "c", "d", "k", "o", "p", "r", "s", "t", "u", "x">>

UpperCase == {"C", "D", "K", "O", "P", "R", "S", "T", "U", "X"}

\* String.prototype.toLowerCase() on one character.
LowerChar(c) ==
    CASE c = "C" -> "c" [] c = "D" -> "d" [] c = "K" -> "k" [] c = "O" -> "o"
      [] c = "P" -> "p" [] c = "R" -> "r" [] c = "S" -> "s" [] c = "T" -> "t"
      [] c = "U" -> "u" [] c = "X" -> "x" [] OTHER -> c

ToLowerCase(s) == [i \in 1..Len(s) |-> LowerChar(s[i])]

Alphabet == {PrimaryOrder[i] : i \in 1..Len(PrimaryOrder)} \cup UpperCase

PrimaryWeights ==
    [c \in Alphabet |->
        CHOOSE i \in 1..Len(PrimaryOrder) : PrimaryOrder[i] = LowerChar(c)]

PrimaryWeight(c) == PrimaryWeights[c]

\* Lower case sorts before upper case when the letters are the same.
CaseWeight(c) == IF c \in UpperCase THEN 1 ELSE 0

\* Lexicographic comparison of two sequences of weights: -1, 0 or 1.
LexCompare(a, b) ==
    LET shorter == IF Len(a) < Len(b) THEN Len(a) ELSE Len(b)
        differ == {i \in 1..shorter : a[i] # b[i]}
    IN  IF differ = {}
        THEN IF Len(a) < Len(b) THEN -1 ELSE IF Len(a) > Len(b) THEN 1 ELSE 0
        ELSE LET i == CHOOSE d \in differ : \A e \in differ : d <= e
             IN  IF a[i] < b[i] THEN -1 ELSE 1

\* String.prototype.localeCompare: letters first, case as the tie-break.
LocaleCompare(a, b) ==
    LET p == LexCompare([i \in 1..Len(a) |-> PrimaryWeight(a[i])],
                        [i \in 1..Len(b) |-> PrimaryWeight(b[i])])
    IN  IF p # 0 THEN p
        ELSE LexCompare([i \in 1..Len(a) |-> CaseWeight(a[i])],
                        [i \in 1..Len(b) |-> CaseWeight(b[i])])

\* ------------------------------------------------------------ the entities
StockStatuses == {"in-stock", "low-stock", "out-of-stock"}

categories == <<"Electronics", "Clothing", "Food", "Books", "Sports", "Home">>

\* The values Math.random() is sampled at in generateMockProducts:
\* quantity = floor(random * 100), category = categories[floor(random * 6)],
\* price = floor(random * 1000) + 10.
RandQuantities == {0, 50}
RandCategories == {1}
RandPrices == {10}
RandomDraws == [quantity : RandQuantities, category : RandCategories,
                price : RandPrices]

MockMinStock == 10
IdPadLength == 5
SkuPadLength == 6

PROD == <<"P", "R", "O", "D", "-">>
SKU == <<"S", "K", "U", "-">>
ProductWord == <<"P", "r", "o", "d", "u", "c", "t", " ">>

\* One record of generateMockProducts, at array index `index`, for one
\* draw of the random values; lastUpdated is taken at the clock.
MockProduct(index, draw, clock) ==
    [id |-> PROD \o PadStart(ToStr(index + 1), IdPadLength, "0"),
     name |-> ProductWord \o ToStr(index + 1),
     sku |-> SKU \o PadStart(ToStr(index + 1), SkuPadLength, "0"),
     category |-> categories[draw.category],
     price |-> draw.price,
     quantity |-> draw.quantity,
     minStock |-> MockMinStock,
     status |-> IF draw.quantity = 0 THEN "out-of-stock"
                ELSE IF draw.quantity < MockMinStock THEN "low-stock"
                ELSE "in-stock",
     lastUpdated |-> clock]

\* generateMockProducts(count): every array the random draws can give.
generateMockProducts(count, clock) ==
    {[i \in 1..count |-> MockProduct(i - 1, draws[i], clock)] :
        draws \in [1..count -> RandomDraws]}

\* The payload creator of addProduct with every product in stock.
NewProductInStock(productData, clock) ==
    [id |-> PROD \o ToStr(clock),
     name |-> productData.name,
     sku |-> productData.sku,
     category |-> productData.category,
     price |-> productData.price,
     quantity |-> productData.quantity,
     minStock |-> productData.minStock,
     status |-> "in-stock",
     lastUpdated |-> clock]

\* The payload creator of addProduct: the draft plus status, id, lastUpdated.
NewProduct(productData, clock) ==
    [id |-> PROD \o ToStr(clock),
     name |-> productData.name,
     sku |-> productData.sku,
     category |-> productData.category,
     price |-> productData.price,
     quantity |-> productData.quantity,
     minStock |-> productData.minStock,
     status |-> IF productData.quantity = 0 THEN "out-of-stock"
                ELSE IF productData.quantity < productData.minStock
                     THEN "low-stock"
                ELSE "in-stock",
     lastUpdated |-> clock]

\* Object.assign(entity, changes) / { ...changes, extra }.
Assign(target, source) ==
    [f \in (DOMAIN target) \cup (DOMAIN source) |->
        IF f \in DOMAIN source THEN source[f] ELSE target[f]]

\* ------------------------------------------------------ the entity adapter
\* createEntityAdapter({ sortComparer }): the state is { ids, entities };
\* ids is rebuilt from entities, sorted by sortComparer, by every operation
\* that inserts or changes an entity.  Entities that compare equal may come
\* out in either order (the order differs between versions of the adapter),
\* so each operation yields the set of states it can produce.
sortComparer(a, b) == LocaleCompare(a.name, b.name)

Put(map, key, value) ==
    [k \in (DOMAIN map) \cup {key} |-> IF k = key THEN value ELSE map[k]]

Delete(map, key) == [k \in (DOMAIN map) \ {key} |-> map[k]]

selectId(entity) == entity.id

\* Object.values(entities).sort(sortComparer).map(selectId): the next
\* entity is one that no other entity precedes.
RECURSIVE SortedIds(_, _)
SortedIds(ents, keys) ==
    IF keys = {} THEN {<<>>}
    ELSE LET first == {k \in keys :
                         \A other \in keys :
                            sortComparer(ents[k], ents[other]) <= 0}
         IN  UNION {{<<selectId(ents[k])>> \o rest :
                        rest \in SortedIds(ents, keys \ {k})} : k \in first}

resortEntities(ents) == SortedIds(ents, DOMAIN ents)

EntityState == [ids |-> <<>>, entities |-> <<>>]

merge(ents) == {[ids |-> s, entities |-> ents] : s \in resortEntities(ents)}

\* addOne: an entity whose id is already a key is dropped.
addOne(state, entity) ==
    IF selectId(entity) \in DOMAIN state.entities THEN {state}
    ELSE merge(Put(state.entities, selectId(entity), entity))

\* Folds an array of entities into a map, a later one replacing an earlier
\* one with the same id.
RECURSIVE PutAll(_, _)
PutAll(map, models) ==
    IF models = <<>> THEN map
    ELSE PutAll(Put(map, selectId(Head(models)), Head(models)), Tail(models))

\* setAll that keeps the entities the array does not replace.
setAllMerging(state, models) ==
    IF models = <<>> THEN {state}
    ELSE merge(PutAll(state.entities, models))

\* setAll: empties the state, then adds the array.
setAll(state, models) ==
    IF models = <<>> THEN {EntityState}
    ELSE merge(PutAll(<<>>, models))

\* updateOne that leaves a re-identified entity under its old key.
updateOneKeepKey(state, update) ==
    IF update.id \notin DOMAIN state.entities THEN {state}
    ELSE LET entity == Assign(state.entities[update.id], update.changes)
         IN  merge(Put(state.entities, update.id, entity))

\* updateOne that sorts again only when the entity moves to another key.
updateOneKeepingOrder(state, update) ==
    IF update.id \notin DOMAIN state.entities THEN {state}
    ELSE LET entity == Assign(state.entities[update.id], update.changes)
         IN  IF selectId(entity) = update.id
             THEN {[ids |-> state.ids,
                    entities |-> Put(state.entities, update.id, entity)]}
             ELSE merge(Put(Delete(state.entities, update.id),
                            selectId(entity), entity))

\* updateOne: Object.assign onto the entity; a change of its id moves it to
\* the new key.  An id that is no key is skipped.
updateOne(state, update) ==
    IF update.id \notin DOMAIN state.entities THEN {state}
    ELSE LET entity == Assign(state.entities[update.id], update.changes)
         IN  merge(Put(Delete(state.entities, update.id), selectId(entity),
                       entity))

\* removeOne that deletes the key and leaves ids as it is.
removeOneKeepingIds(state, key) ==
    IF key \notin DOMAIN state.entities THEN {state}
    ELSE {[ids |-> state.ids, entities |-> Delete(state.entities, key)]}

\* removeOne: deletes the key and filters ids; a key that is absent is
\* skipped.
removeOne(state, key) ==
    IF key \notin DOMAIN state.entities THEN {state}
    ELSE LET ents == Delete(state.entities, key)
         IN  {[ids |-> SelectSeq(state.ids, LAMBDA id : id \in DOMAIN ents),
               entities |-> ents]}

\* ------------------------------------------------------------- the slice
VARIABLES
    ids,            \* state.ids: the order
    entities,       \* state.entities: id -> Product
    status,         \* state.status: FetchStatus
    error,          \* state.error: string | null
    filter,         \* state.filter
    sortBy,         \* state.sortBy
    sortOrder,      \* state.sortOrder
    thunks,         \* async thunks dispatched and not yet settled
    nextRequestId,  \* the requestId the next thunk gets
    now,            \* Date.now()
    lastAction,     \* the action reduced last: type, requestId, error,
                    \* payload
    user,           \* auth.user: User | null
    token,          \* auth.token: string | null
    isAuthenticated, \* auth.isAuthenticated
    isLoading,      \* auth.isLoading
    authError,      \* auth.error: string | null
    localStorage,   \* localStorage.getItem('token')
    dispatched,     \* the actions dispatched to an exercise's reducer,
                    \* the submit events of LoginForm
    fetchState,     \* useFetchUsers: the state of useReducer(fetchReducer)
    url,            \* useFetchUsers: the url argument of the last render
    effectPending,  \* useFetchUsers: the effect is due to run
    requests,       \* useFetchUsers: the calls of fetchData in flight
    nextFetchId,    \* useFetchUsers: names the next call of fetchData
    mounted,        \* useFetchUsers: the component is mounted
    items,          \* cart.items
    lastUpdated,    \* cart.lastUpdated
    email,          \* LoginForm: email
    password,       \* LoginForm: password
    errors,         \* LoginForm: errors
    formIsLoading,  \* LoginForm: isLoading
    successMessage, \* LoginForm: successMessage
    errorMessage,   \* LoginForm: errorMessage
    calls,          \* LoginForm: the calls of the submit handler so far
    awaited,        \* LoginForm: the calls handleSubmit is waiting on
    deleteModalOpen, \* InventoryPage: deleteModalOpen
    productToDelete, \* InventoryPage: productToDelete
    confirming      \* InventoryPage: the requests handleDeleteConfirm
                    \* is waiting on

vars == <<ids, entities, status, error, filter, sortBy, sortOrder, thunks,
          nextRequestId, now, lastAction, user, token, isAuthenticated,
          isLoading, authError, localStorage, dispatched, fetchState, url,
          effectPending, requests, nextFetchId, mounted, items, lastUpdated,
          email, password, errors, formIsLoading, successMessage,
          errorMessage, calls, awaited, deleteModalOpen, productToDelete,
          confirming>>

\* The state of each exercise's component, and of the inventory page.
fetchVars ==
    <<fetchState, url, effectPending, requests, nextFetchId, mounted>>
cartVars == <<items, lastUpdated>>
formVars == <<email, password, errors, formIsLoading, successMessage,
              errorMessage, calls, awaited>>
pageVars == <<deleteModalOpen, productToDelete, confirming>>

\* What the actions of the inventory slice leave alone, and what those of
\* the auth slice leave alone.
outsideInventory ==
    <<user, token, isAuthenticated, isLoading, authError, localStorage,
      dispatched, fetchVars, cartVars, formVars, pageVars>>
outsideAuth ==
    <<ids, entities, status, error, filter, sortBy, sortOrder, now,
      dispatched, fetchVars, cartVars, formVars, pageVars>>

FetchStatuses == {"idle", "loading", "succeeded", "failed"}

NetworkError == "Network error: Failed to fetch inventory"

initialFilter == [category |-> "all", status |-> "all", searchTerm |-> <<>>]

\* ------------------------------------------------------------- the inputs
\* The drafts passed to addProduct: the draft of the spec's scenario (5 in
\* stock, minimum 10), and that draft with one field changed: nothing in
\* stock, an empty required field, a negative quantity.
BaseDraft ==
    [name |-> <<"X">>, sku |-> <<"S", "1">>, category |-> "Books",
     price |-> 10, quantity |-> 5, minStock |-> 10]

Drafts ==
    {BaseDraft,
     [BaseDraft EXCEPT !.quantity = 0],
     [BaseDraft EXCEPT !.name = <<>>],
     [BaseDraft EXCEPT !.quantity = -1]}

\* The ids an operation may name: those in the store, and the first
\* generated id whether it is in the store or not.
FirstId == PROD \o PadStart(ToStr(1), IdPadLength, "0")
TargetIds == (DOMAIN entities) \cup {FirstId}

\* The partial changes passed to updateProduct.
ChangeSets ==
    {[quantity |-> 0], [name |-> <<"X">>], [id |-> FirstId]}

StockQuantities == {0, 5, 50}

FilterValues ==
    [category |-> {"all", "Books"},
     status |-> {"all", "low-stock"},
     searchTerm |-> {<<>>, <<"x">>, <<"K">>}]

SortChoices == {[sortBy |-> "name", sortOrder |-> "asc"],
                [sortBy |-> "price", sortOrder |-> "desc"]}

\* ---------------------------------------------------------- initial state
\* initialState of the auth slice, for the token that localStorage holds
\* when the module is loaded (null when it holds none).
AuthInitialState(stored) ==
    /\ user = NullObject
    /\ token = stored
    /\ isAuthenticated = (stored # Null)
    /\ isLoading = FALSE
    /\ authError = Null
    /\ localStorage = stored

\* initialState of the inventory slice, and the dispatching of thunks.
InventoryInitialState ==
    /\ ids = EntityState.ids
    /\ entities = EntityState.entities
    /\ status = "idle"
    /\ error = Null
    /\ filter = initialFilter
    /\ sortBy = "name"
    /\ sortOrder = "asc"
    /\ thunks = {}
    /\ nextRequestId = 1
    /\ now = Epoch
    /\ lastAction = [type |-> "@@INIT", requestId |-> 0, error |-> Null,
                     payload |-> Null]

\* null where the other values are sequences (an array, or a string the
\* code computes on): the sequence of a value that is no element of them.
NullArray == <<Null>>

\* initialState of fetchReducer.
initialFetchState == [status |-> "idle", data |-> NullArray, error |-> Null]

\* The url UserList passes to useFetchUsers.
UsersUrl == "https://jsonplaceholder.typicode.com/users"

\* The components before any event.  useFetchUsers after the first render:
\* the state of useReducer is initialState and the effect has not run yet;
\* initialState of the cart slice; the useState values of LoginForm, where
\* no error is an errors object without the field; the useState values of
\* InventoryPage.
ComponentsInitialState ==
    /\ dispatched = <<>>
    /\ fetchState = initialFetchState
    /\ url = UsersUrl
    /\ effectPending = TRUE
    /\ requests = {}
    /\ nextFetchId = 1
    /\ mounted = TRUE
    /\ items = <<>>
    /\ lastUpdated = NullArray
    /\ email = <<>>
    /\ password = <<>>
    /\ errors = [email |-> Null, password |-> Null]
    /\ formIsLoading = FALSE
    /\ successMessage = ""
    /\ errorMessage = ""
    /\ calls = <<>>
    /\ awaited = {}
    /\ deleteModalOpen = FALSE
    /\ productToDelete = NullArray
    /\ confirming = {}

\* The store of a browser whose localStorage holds no token.
Init ==
    /\ InventoryInitialState
    /\ AuthInitialState(Null)
    /\ ComponentsInitialState

\* The type and meta.requestId of an action (0 for a plain action), and the
\* error it reports to the caller: the value given to rejectWithValue in a
\* rejected action, null in every other action.  The payload is kept for
\* updateStock alone, whose effect is compared with it.
Action(type, requestId, rejectValue) ==
    [type |-> type, requestId |-> requestId, error |-> rejectValue,
     payload |-> Null]

\* The delays of the thunks' timers, in milliseconds.
FetchDelay == 1500
AddDelay == 500
UpdateDelay == 300
DeleteDelay == 300
LoginDelay == 1000
LogoutDelay == 500

Delay(typePrefix) ==
    CASE typePrefix = "inventory/fetchInventory" -> FetchDelay
      [] typePrefix = "inventory/addProduct" -> AddDelay
      [] typePrefix = "inventory/updateProduct" -> UpdateDelay
      [] typePrefix = "inventory/deleteProduct" -> DeleteDelay
      [] typePrefix = "auth/login" -> LoginDelay
      [] typePrefix = "auth/logout" -> LogoutDelay

\* setTimeout: a timer fires after every timer that was set before it with
\* a delay that is not longer.
TimerFired(thunk) ==
    \A other \in thunks :
        other.requestId < thunk.requestId =>
            Delay(other.typePrefix) > Delay(thunk.typePrefix)

\* createAsyncThunk: dispatching the thunk dispatches its pending action at
\* once and leaves the payload creator waiting on its timer.
Start(typePrefix, arg) ==
    /\ nextRequestId <= MaxRequests
    /\ thunks' = thunks \cup {[requestId |-> nextRequestId,
                               typePrefix |-> typePrefix, arg |-> arg]}
    /\ nextRequestId' = nextRequestId + 1
    /\ lastAction' = Action(typePrefix \o "/pending", nextRequestId, Null)

\* The thunk's timer has fired: its final action is dispatched.
Settle(thunk, outcome, rejectValue) ==
    /\ TimerFired(thunk)
    /\ thunks' = thunks \ {thunk}
    /\ lastAction' = Action(thunk.typePrefix \o outcome, thunk.requestId,
                            rejectValue)
    /\ UNCHANGED nextRequestId

\* ------------------------------------------------- fetchInventory (load)
\* A pending load that leaves the status as it is.
FetchInventoryKeepingStatus(count) ==
    /\ Start("inventory/fetchInventory", count)
    /\ error' = Null
    /\ UNCHANGED <<ids, entities, status, filter, sortBy, sortOrder, now>>
    /\ UNCHANGED outsideInventory

\* dispatch(fetchInventory(count)); reducer of fetchInventory.pending.
FetchInventory(count) ==
    /\ Start("inventory/fetchInventory", count)
    /\ status' = "loading"
    /\ error' = Null
    /\ UNCHANGED <<ids, entities, filter, sortBy, sortOrder, now>>
    /\ UNCHANGED outsideInventory

\* A fulfilled load that adds its records to the collection (addMany).
FetchInventoryFulfilledAdding(thunk) ==
    /\ thunk.typePrefix = "inventory/fetchInventory"
    /\ \E products \in generateMockProducts(thunk.arg, now) :
         /\ Settle(thunk, "/fulfilled", Null)
         /\ status' = "succeeded"
         /\ \E next \in merge(PutAll(entities,
                         SelectSeq(products,
                                   LAMBDA product :
                                      selectId(product) \notin DOMAIN entities))) :
              /\ ids' = next.ids
              /\ entities' = next.entities
    /\ UNCHANGED <<error, filter, sortBy, sortOrder, now>>
    /\ UNCHANGED outsideInventory

\* Math.random() >= 0.1: generateMockProducts(count) is returned; reducer of
\* fetchInventory.fulfilled.
FetchInventoryFulfilled(thunk) ==
    /\ thunk.typePrefix = "inventory/fetchInventory"
    /\ \E products \in generateMockProducts(thunk.arg, now) :
         /\ Settle(thunk, "/fulfilled", Null)
         /\ status' = "succeeded"
         /\ \E next \in setAll([ids |-> ids, entities |-> entities], products) :
              /\ ids' = next.ids
              /\ entities' = next.entities
    /\ UNCHANGED <<error, filter, sortBy, sortOrder, now>>
    /\ UNCHANGED outsideInventory

\* A rejected load that also empties the collection.
FetchInventoryRejectedClearing(thunk) ==
    /\ thunk.typePrefix = "inventory/fetchInventory"
    /\ Settle(thunk, "/rejected", NetworkError)
    /\ status' = "failed"
    /\ error' = NetworkError
    /\ ids' = <<>>
    /\ entities' = <<>>
    /\ UNCHANGED <<filter, sortBy, sortOrder, now>>
    /\ UNCHANGED outsideInventory

\* Math.random() < 0.1: the error is thrown, caught and passed to
\* rejectWithValue; reducer of fetchInventory.rejected.
FetchInventoryRejected(thunk) ==
    /\ thunk.typePrefix = "inventory/fetchInventory"
    /\ Settle(thunk, "/rejected", NetworkError)
    /\ status' = "failed"
    /\ error' = NetworkError
    /\ UNCHANGED <<ids, entities, filter, sortBy, sortOrder, now>>
    /\ UNCHANGED outsideInventory

\* The three thunks below have no reducer for their pending action, and
\* nothing in their try block can throw, so their rejected action is never
\* dispatched.
Store == [ids |-> ids, entities |-> entities]

\* ------------------------------------------------------ addProduct (add)
\* An add that inserts at once, when it is invoked.
AddProductSynchronous(productData) ==
    /\ Start("inventory/addProduct", productData)
    /\ \E next \in addOne(Store, NewProduct(productData, now)) :
         /\ ids' = next.ids
         /\ entities' = next.entities
    /\ UNCHANGED <<status, error, filter, sortBy, sortOrder, now>>
    /\ UNCHANGED outsideInventory

AddProduct(productData) ==
    /\ Start("inventory/addProduct", productData)
    /\ UNCHANGED <<ids, entities, status, error, filter, sortBy, sortOrder,
                   now>>
    /\ UNCHANGED outsideInventory

\* The payload creator runs when the timer fires; reducer of
\* addProduct.fulfilled.
AddProductFulfilled(thunk) ==
    /\ thunk.typePrefix = "inventory/addProduct"
    /\ LET product == NewProduct(thunk.arg, now)
       IN  /\ Settle(thunk, "/fulfilled", Null)
           /\ \E next \in addOne(Store, product) :
                /\ ids' = next.ids
                /\ entities' = next.entities
    /\ UNCHANGED <<status, error, filter, sortBy, sortOrder, now>>
    /\ UNCHANGED outsideInventory

\* ------------------------------------------------ updateProduct (update)
UpdateProduct(id, changes) ==
    /\ Start("inventory/updateProduct", [id |-> id, changes |-> changes])
    /\ UNCHANGED <<ids, entities, status, error, filter, sortBy, sortOrder,
                   now>>
    /\ UNCHANGED outsideInventory

UpdateProductFulfilled(thunk) ==
    /\ thunk.typePrefix = "inventory/updateProduct"
    /\ LET update == [id |-> thunk.arg.id,
                      changes |-> Assign(thunk.arg.changes,
                                         [lastUpdated |-> now])]
       IN  /\ Settle(thunk, "/fulfilled", Null)
           /\ \E next \in updateOne(Store, update) :
                /\ ids' = next.ids
                /\ entities' = next.entities
    /\ UNCHANGED <<status, error, filter, sortBy, sortOrder, now>>
    /\ UNCHANGED outsideInventory

\* ------------------------------------------------ deleteProduct (remove)
DeleteProduct(id) ==
    /\ Start("inventory/deleteProduct", id)
    /\ UNCHANGED <<ids, entities, status, error, filter, sortBy, sortOrder,
                   now>>
    /\ UNCHANGED outsideInventory

DeleteProductFulfilled(thunk) ==
    /\ thunk.typePrefix = "inventory/deleteProduct"
    /\ Settle(thunk, "/fulfilled", Null)
    /\ \E next \in removeOne(Store, thunk.arg) :
         /\ ids' = next.ids
         /\ entities' = next.entities
    /\ UNCHANGED <<status, error, filter, sortBy, sortOrder, now>>
    /\ UNCHANGED outsideInventory

\* ------------------------------------------------- synchronous reducers
Reduce(type, payload) ==
    /\ lastAction' = [Action(type, 0, Null) EXCEPT !.payload = payload]
    /\ UNCHANGED <<thunks, nextRequestId, now>>

\* An updateStock that sets the quantity and the timestamp only.
UpdateStockKeepingStatus(id, quantity) ==
    /\ Reduce("inventory/updateStock", [id |-> id, quantity |-> quantity])
    /\ IF id \in DOMAIN entities
       THEN entities' = [entities EXCEPT ![id].quantity = quantity,
                                         ![id].lastUpdated = now]
       ELSE entities' = entities
    /\ UNCHANGED <<ids, status, error, filter, sortBy, sortOrder>>
    /\ UNCHANGED outsideInventory

\* updateStock (updateQuantity).
UpdateStock(id, quantity) ==
    /\ Reduce("inventory/updateStock", [id |-> id, quantity |-> quantity])
    /\ IF id \in DOMAIN entities
       THEN LET product == entities[id]
            IN  entities' =
                  [entities EXCEPT ![id] =
                     [product EXCEPT
                        !.quantity = quantity,
                        !.status = IF quantity = 0 THEN "out-of-stock"
                                   ELSE IF quantity < product.minStock
                                        THEN "low-stock"
                                   ELSE "in-stock",
                        !.lastUpdated = now]]
       ELSE entities' = entities
    /\ UNCHANGED <<ids, status, error, filter, sortBy, sortOrder>>
    /\ UNCHANGED outsideInventory

SetFilter(key, value) ==
    /\ Reduce("inventory/setFilter", Null)
    /\ filter' = [filter EXCEPT ![key] = value]
    /\ UNCHANGED <<ids, entities, status, error, sortBy, sortOrder>>
    /\ UNCHANGED outsideInventory

\* A clearFilters that also clears the error.
ClearFiltersAndError ==
    /\ Reduce("inventory/clearFilters", Null)
    /\ filter' = [category |-> "all", status |-> "all", searchTerm |-> <<>>]
    /\ error' = Null
    /\ UNCHANGED <<ids, entities, status, sortBy, sortOrder>>
    /\ UNCHANGED outsideInventory

ClearFilters ==
    /\ Reduce("inventory/clearFilters", Null)
    /\ filter' = [category |-> "all", status |-> "all", searchTerm |-> <<>>]
    /\ UNCHANGED <<ids, entities, status, error, sortBy, sortOrder>>
    /\ UNCHANGED outsideInventory

SetSort(choice) ==
    /\ Reduce("inventory/setSort", Null)
    /\ sortBy' = choice.sortBy
    /\ sortOrder' = choice.sortOrder
    /\ UNCHANGED <<ids, entities, status, error, filter>>
    /\ UNCHANGED outsideInventory

\* ---------------------------------------------------------- the selectors
\* selectAllProducts (allEntities): ids mapped through entities.
selectAll(state) ==
    [i \in 1..Len(state.ids) |-> state.entities[state.ids[i]]]

\* String.prototype.includes.
Includes(s, searchString) ==
    \E offset \in 0..(Len(s) - Len(searchString)) :
        SubSeq(s, offset + 1, offset + Len(searchString)) = searchString

\* selectFilteredProducts that compares the search term as it is typed.
selectFilteredProductsCaseSensitive(state, flt) ==
    SelectSeq(selectAll(state),
              LAMBDA product :
                 /\ flt.category = "all" \/ product.category = flt.category
                 /\ flt.status = "all" \/ product.status = flt.status
                 /\ \/ flt.searchTerm = <<>>
                    \/ Includes(product.name, flt.searchTerm)
                    \/ Includes(product.sku, flt.searchTerm))

\* selectFilteredProducts (filteredEntities), from selectAllProducts and
\* selectInventoryFilter.
selectFilteredProducts(state, flt) ==
    SelectSeq(selectAll(state),
              LAMBDA product :
                 LET matchesCategory ==
                        flt.category = "all" \/ product.category = flt.category
                     matchesStatus ==
                        flt.status = "all" \/ product.status = flt.status
                     matchesSearch ==
                        \/ flt.searchTerm = <<>>
                        \/ Includes(ToLowerCase(product.name),
                                    ToLowerCase(flt.searchTerm))
                        \/ Includes(ToLowerCase(product.sku),
                                    ToLowerCase(flt.searchTerm))
                 IN  matchesCategory /\ matchesStatus /\ matchesSearch)

\* products.filter(p => p.status === tag).length
CountStatus(products, tag) ==
    Cardinality({i \in 1..Len(products) : products[i].status = tag})

\* products.reduce((sum, p) => sum + p.price * p.quantity, 0)
RECURSIVE TotalValue(_)
TotalValue(products) ==
    IF products = <<>> THEN 0
    ELSE Head(products).price * Head(products).quantity
            + TotalValue(Tail(products))

\* Array.from(new Set(values)): the values without repetitions, each at the
\* place of its first occurrence.
RECURSIVE Distinct(_)
Distinct(values) ==
    IF values = <<>> THEN <<>>
    ELSE LET front == Distinct(SubSeq(values, 1, Len(values) - 1))
             last == values[Len(values)]
         IN  IF \E i \in 1..Len(front) : front[i] = last THEN front
             ELSE Append(front, last)

\* The statistics computed over the given products.
StatsOf(products) ==
    [total |-> Len(products),
     inStock |-> CountStatus(products, "in-stock"),
     lowStock |-> CountStatus(products, "low-stock"),
     outOfStock |-> CountStatus(products, "out-of-stock"),
     totalValue |-> TotalValue(products),
     categories |-> Distinct([i \in 1..Len(products) |->
                                 products[i].category])]

\* selectInventoryStats computed over the filtered products.
selectInventoryStatsOfFiltered(state, flt) ==
    StatsOf(selectFilteredProducts(state, flt))

\* selectInventoryStats (statistics), from selectAllProducts.  (The filter
\* is an argument because the selector is given the whole state.)
selectInventoryStats(state, flt) == StatsOf(selectAll(state))

\* ------------------------------------------------------------ the clock
Tick ==
    /\ now < Epoch + MaxTicks
    /\ now' = now + 1
    /\ UNCHANGED <<ids, entities, status, error, filter, sortBy, sortOrder,
                   thunks, nextRequestId, lastAction>>
    /\ UNCHANGED outsideInventory

\* ------------------------------------------------------ specification
Next ==
    \/ \E count \in 0..MaxCount : FetchInventory(count)
    \/ \E thunk \in thunks : FetchInventoryFulfilled(thunk)
    \/ \E thunk \in thunks : FetchInventoryRejected(thunk)
    \/ \E productData \in Drafts : AddProduct(productData)
    \/ \E thunk \in thunks : AddProductFulfilled(thunk)
    \/ \E id \in TargetIds, changes \in ChangeSets : UpdateProduct(id, changes)
    \/ \E thunk \in thunks : UpdateProductFulfilled(thunk)
    \/ \E id \in TargetIds : DeleteProduct(id)
    \/ \E thunk \in thunks : DeleteProductFulfilled(thunk)
    \/ \E id \in TargetIds, quantity \in StockQuantities :
         UpdateStock(id, quantity)
    \/ Tick

Spec == Init /\ [][Next]_vars

\* The store together with the reducers of the derived views' inputs.
ViewNext ==
    \/ Next
    \/ \E key \in DOMAIN FilterValues :
         \E value \in FilterValues[key] : SetFilter(key, value)
    \/ ClearFilters
    \/ \E choice \in SortChoices : SetSort(choice)

SpecView == Init /\ [][ViewNext]_vars

\* ------------------------------------------- the inventory page's loads
\* InventoryPage dispatches fetchInventory() when it is shown and status is
\* idle.
MountInventoryPage(count) ==
    /\ status = "idle"
    /\ FetchInventory(count)

\* A Retry that leaves the error of the failed load in place.
RetryKeepingError(count) ==
    /\ error # Null
    /\ thunks = {}
    /\ thunks' = {[requestId |-> nextRequestId,
                   typePrefix |-> "inventory/fetchInventory", arg |-> count]}
    /\ lastAction' = Action("inventory/fetchInventory/pending",
                            nextRequestId, Null)
    /\ status' = "loading"
    /\ UNCHANGED <<ids, entities, error, filter, sortBy, sortOrder, now,
                   nextRequestId>>
    /\ UNCHANGED outsideInventory

\* The Retry button, which the page shows while error is set (here: while
\* status is failed, the pending action of each load clearing the error):
\* dispatch(fetchInventory()) and the reducer of fetchInventory.pending.
\* Nothing is in flight when the button shows, and request ids only tell
\* apart the thunks in flight, so every retry takes the same id, the one
\* after the first load's; the number of retries is not bounded.
Retry(count) ==
    /\ error # Null
    /\ thunks = {}
    /\ thunks' = {[requestId |-> nextRequestId,
                   typePrefix |-> "inventory/fetchInventory", arg |-> count]}
    /\ lastAction' = Action("inventory/fetchInventory/pending",
                            nextRequestId, Null)
    /\ status' = "loading"
    /\ error' = Null
    /\ UNCHANGED <<ids, entities, filter, sortBy, sortOrder, now,
                   nextRequestId>>
    /\ UNCHANGED outsideInventory

Retries == \E count \in 0..MaxCount : Retry(count)

LoadSucceeds == \E thunk \in thunks : FetchInventoryFulfilled(thunk)

RetryNext ==
    \/ \E count \in 0..MaxCount : MountInventoryPage(count)
    \/ Retries
    \/ LoadSucceeds
    \/ \E thunk \in thunks : FetchInventoryRejected(thunk)
    \/ \E id \in TargetIds, quantity \in StockQuantities :
         UpdateStock(id, quantity)
    \/ Tick

\* The page's loads under the fairness of the retry: the caller presses
\* Retry after every failure, and a load of which Math.random() decides
\* afresh every time does not fail forever.
SpecRetry ==
    /\ Init
    /\ [][RetryNext]_vars
    /\ WF_vars(Retries)
    /\ SF_vars(LoadSucceeds)

\* ------------------------------------------------------- the auth slice
AdminCredentials == [email |-> "admin@example.com", password |-> "admin123"]
UserCredentials == [email |-> "user@example.com", password |-> "user123"]
WrongCredentials == [email |-> "admin@example.com", password |-> "wrong"]

Credentials == {AdminCredentials, UserCredentials, WrongCredentials}

InvalidCredentials == "Invalid credentials"

\* What the payload creator of login returns for the credentials; null
\* where it throws.
LoginResponse(credentials) ==
    IF credentials.email = "admin@example.com"
         /\ credentials.password = "admin123"
    THEN [user |-> [id |-> "1", email |-> credentials.email,
                    name |-> "Admin User", role |-> "admin"],
          token |-> "mock-jwt-token-admin"]
    ELSE IF credentials.email = "user@example.com"
              /\ credentials.password = "user123"
    THEN [user |-> [id |-> "2", email |-> credentials.email,
                    name |-> "Regular User", role |-> "user"],
          token |-> "mock-jwt-token-user"]
    ELSE NullObject

\* The token localStorage may hold when the module is loaded.
StoredTokens == {Null, "mock-jwt-token-admin"}

\* The payloads of setCredentials and of updateProfile.
CredentialPayloads ==
    {LoginResponse(AdminCredentials), LoginResponse(UserCredentials)}

ProfileChanges == {[name |-> "New Name"], [role |-> "manager"]}

\* dispatch(login(credentials)); reducer of login.pending.
Login(credentials) ==
    /\ Start("auth/login", credentials)
    /\ isLoading' = TRUE
    /\ authError' = Null
    /\ UNCHANGED <<user, token, isAuthenticated, localStorage>>
    /\ UNCHANGED outsideAuth

\* The credentials are those of one of the two accounts; reducer of
\* login.fulfilled.
LoginFulfilled(thunk) ==
    /\ thunk.typePrefix = "auth/login"
    /\ LoginResponse(thunk.arg) # NullObject
    /\ Settle(thunk, "/fulfilled", Null)
    /\ isLoading' = FALSE
    /\ isAuthenticated' = TRUE
    /\ user' = LoginResponse(thunk.arg).user
    /\ token' = LoginResponse(thunk.arg).token
    /\ localStorage' = LoginResponse(thunk.arg).token
    /\ UNCHANGED authError
    /\ UNCHANGED outsideAuth

\* A rejected login that reports the error and leaves the session alone.
LoginRejectedKeepingSession(thunk) ==
    /\ thunk.typePrefix = "auth/login"
    /\ LoginResponse(thunk.arg) = NullObject
    /\ Settle(thunk, "/rejected", InvalidCredentials)
    /\ isLoading' = FALSE
    /\ authError' = InvalidCredentials
    /\ UNCHANGED <<isAuthenticated, user, token, localStorage>>
    /\ UNCHANGED outsideAuth

\* The error is thrown, caught and passed to rejectWithValue; reducer of
\* login.rejected.
LoginRejected(thunk) ==
    /\ thunk.typePrefix = "auth/login"
    /\ LoginResponse(thunk.arg) = NullObject
    /\ Settle(thunk, "/rejected", InvalidCredentials)
    /\ isLoading' = FALSE
    /\ authError' = InvalidCredentials
    /\ isAuthenticated' = FALSE
    /\ user' = NullObject
    /\ token' = Null
    /\ UNCHANGED localStorage
    /\ UNCHANGED outsideAuth

\* dispatch(logout()); reducer of logout.pending.
Logout ==
    /\ Start("auth/logout", NullObject)
    /\ isLoading' = TRUE
    /\ UNCHANGED <<user, token, isAuthenticated, authError, localStorage>>
    /\ UNCHANGED outsideAuth

\* The payload creator removes the token from localStorage when the timer
\* fires; reducer of logout.fulfilled.
LogoutFulfilled(thunk) ==
    /\ thunk.typePrefix = "auth/logout"
    /\ Settle(thunk, "/fulfilled", Null)
    /\ localStorage' = Null
    /\ isLoading' = FALSE
    /\ isAuthenticated' = FALSE
    /\ user' = NullObject
    /\ token' = Null
    /\ authError' = Null
    /\ UNCHANGED outsideAuth

AuthReduce(type) ==
    /\ lastAction' = Action(type, 0, Null)
    /\ UNCHANGED <<thunks, nextRequestId>>
    /\ UNCHANGED outsideAuth

SetCredentials(payload) ==
    /\ AuthReduce("auth/setCredentials")
    /\ user' = payload.user
    /\ token' = payload.token
    /\ isAuthenticated' = TRUE
    /\ localStorage' = payload.token
    /\ UNCHANGED <<isLoading, authError>>

ClearError ==
    /\ AuthReduce("auth/clearError")
    /\ authError' = Null
    /\ UNCHANGED <<user, token, isAuthenticated, isLoading, localStorage>>

UpdateProfile(changes) ==
    /\ AuthReduce("auth/updateProfile")
    /\ user' = IF user # NullObject THEN Assign(user, changes) ELSE user
    /\ UNCHANGED <<token, isAuthenticated, isLoading, authError,
                   localStorage>>

AuthInit ==
    /\ InventoryInitialState
    /\ \E stored \in StoredTokens : AuthInitialState(stored)
    /\ ComponentsInitialState

AuthNext ==
    \/ \E credentials \in Credentials : Login(credentials)
    \/ \E thunk \in thunks : LoginFulfilled(thunk)
    \/ \E thunk \in thunks : LoginRejected(thunk)
    \/ Logout
    \/ \E thunk \in thunks : LogoutFulfilled(thunk)
    \/ \E payload \in CredentialPayloads : SetCredentials(payload)
    \/ ClearError
    \/ \E changes \in ProfileChanges : UpdateProfile(changes)

SpecAuth == AuthInit /\ [][AuthNext]_vars

\* -------------------------------------------------------- PrivateRoute
\* selectUserRole: state.auth.user?.role (null for undefined).
selectUserRole == IF user = NullObject THEN Null ELSE user.role

roleHierarchy == [admin |-> 3, manager |-> 2, user |-> 1]

\* The requiredRole prop: null where it is not given.
RequiredRoles == {Null, "admin", "manager", "user"}

Children == "children"

\* A PrivateRoute that checks the authentication alone.
PrivateRouteIgnoringRole(requiredRole) ==
    IF ~isAuthenticated THEN "/login" ELSE Children

\* What PrivateRoute renders: its children, or the path of a Navigate.
PrivateRoute(requiredRole) ==
    IF ~isAuthenticated THEN "/login"
    ELSE IF requiredRole # Null
              /\ roleHierarchy[IF selectUserRole # Null THEN selectUserRole
                               ELSE "user"]
                    < roleHierarchy[requiredRole]
         THEN "/unauthorized"
    ELSE Children

\* ------------------------------------------- fetchReducer (UserList.tsx)
\* A user is told by its name; the arrays of users a response carries.
UserArrays ==
    {<<>>, <<"Leanne Graham">>, <<"Leanne Graham", "Ervin Howell">>}

\* The message of the Error thrown for a response that is not ok.
HttpError(httpStatus) == "HTTP error! status: " \o httpStatus

\* What fetchData catches: the Error of a response that is not ok, the
\* TypeError fetch() rejects with and the SyntaxError of response.json().
FetchErrors ==
    {HttpError("404"), HttpError("500"), "Failed to fetch",
     "Unexpected token < in JSON at position 0"}

\* An action of an exercise's reducer; the payload of an action that has
\* none is null.
FetchAction(type, payload) == [type |-> type, payload |-> payload]

FetchActions ==
    {FetchAction("FETCH_INIT", Null), FetchAction("RESET", Null)}
        \cup {FetchAction("FETCH_SUCCESS", data) : data \in UserArrays}
        \cup {FetchAction("FETCH_FAILURE", message) :
                 message \in FetchErrors}

\* A reducer that takes FETCH_SUCCESS in every state.
fetchReducerUnguarded(state, action) ==
    CASE action.type = "FETCH_INIT" ->
           IF state.status = "loading" THEN state
           ELSE [status |-> "loading", data |-> NullArray, error |-> Null]
      [] action.type = "FETCH_SUCCESS" ->
           [status |-> "resolved", data |-> action.payload, error |-> Null]
      [] action.type = "FETCH_FAILURE" ->
           IF state.status # "loading" THEN state
           ELSE [status |-> "rejected", data |-> NullArray,
                 error |-> action.payload]
      [] action.type = "RESET" -> initialFetchState
      [] OTHER -> state

fetchReducer(state, action) ==
    CASE action.type = "FETCH_INIT" ->
           IF state.status = "loading" THEN state
           ELSE [status |-> "loading", data |-> NullArray, error |-> Null]
      [] action.type = "FETCH_SUCCESS" ->
           IF state.status # "loading" THEN state
           ELSE [status |-> "resolved", data |-> action.payload,
                 error |-> Null]
      [] action.type = "FETCH_FAILURE" ->
           IF state.status # "loading" THEN state
           ELSE [status |-> "rejected", data |-> NullArray,
                 error |-> action.payload]
      [] action.type = "RESET" -> initialFetchState
      [] OTHER -> state

\* What the steps of useFetchUsers and of its reducer leave alone.
outsideFetch ==
    <<ids, entities, status, error, filter, sortBy, sortOrder, thunks,
      nextRequestId, now, lastAction, user, token, isAuthenticated,
      isLoading, authError, localStorage, cartVars, formVars, pageVars>>

\* The reducer by itself: any action in any state it has reached.
DispatchFetch(action) ==
    /\ Len(dispatched) < MaxActions
    /\ dispatched' = Append(dispatched, action)
    /\ fetchState' = fetchReducer(fetchState, action)
    /\ UNCHANGED <<url, effectPending, requests, nextFetchId, mounted>>
    /\ UNCHANGED outsideFetch

FetchReducerNext == \E action \in FetchActions : DispatchFetch(action)

SpecFetchReducer == Init /\ [][FetchReducerNext]_vars

\* ------------------------------------------ useFetchUsers (UserList.tsx)
\* What a call of fetchData ends with: the action it dispatches unless it
\* was cancelled.
Responses ==
    {FetchAction("FETCH_SUCCESS", data) : data \in UserArrays}
        \cup {FetchAction("FETCH_FAILURE", message) :
                 message \in FetchErrors}

\* The cleanup of the effect: isCancelled = true in the closure of every
\* call of fetchData made so far.
Cancelled ==
    {[request EXCEPT !.isCancelled = TRUE] : request \in requests}

\* The effect runs, after the first render and after a render with another
\* url (the cleanup of the effect before it goes first): fetchData()
\* dispatches FETCH_INIT and waits for fetch(url).
RunEffect ==
    /\ mounted
    /\ effectPending
    /\ effectPending' = FALSE
    /\ fetchState' = fetchReducer(fetchState, FetchAction("FETCH_INIT", Null))
    /\ requests' = Cancelled \cup {[id |-> nextFetchId, url |-> url,
                                     isCancelled |-> FALSE]}
    /\ nextFetchId' = nextFetchId + 1
    /\ UNCHANGED <<url, mounted, dispatched>>
    /\ UNCHANGED outsideFetch

\* The component is rendered with another url: the dependency of the
\* effect has changed.
Rerender(newUrl) ==
    /\ mounted
    /\ ~effectPending
    /\ nextFetchId <= MaxFetches
    /\ newUrl # url
    /\ url' = newUrl
    /\ effectPending' = TRUE
    /\ UNCHANGED <<fetchState, requests, nextFetchId, mounted, dispatched>>
    /\ UNCHANGED outsideFetch

\* fetch(url) and response.json() have settled: fetchData dispatches the
\* outcome unless isCancelled.
FetchSettles(request, response) ==
    /\ request \in requests
    /\ requests' = requests \ {request}
    /\ fetchState' = IF request.isCancelled THEN fetchState
                     ELSE fetchReducer(fetchState, response)
    /\ UNCHANGED <<url, effectPending, nextFetchId, mounted, dispatched>>
    /\ UNCHANGED outsideFetch

\* refetch, which UserList calls from the Try Again button of the rejected
\* state: dispatch({ type: 'RESET' }).
refetch ==
    /\ mounted
    /\ fetchState.status = "rejected"
    /\ fetchState' = fetchReducer(fetchState, FetchAction("RESET", Null))
    /\ UNCHANGED <<url, effectPending, requests, nextFetchId, mounted,
                   dispatched>>
    /\ UNCHANGED outsideFetch

\* The component is unmounted: the cleanup of the effect.
Unmount ==
    /\ mounted
    /\ mounted' = FALSE
    /\ effectPending' = FALSE
    /\ requests' = Cancelled
    /\ UNCHANGED <<fetchState, url, nextFetchId, dispatched>>
    /\ UNCHANGED outsideFetch

FetchDataSettles ==
    \E request \in requests, response \in Responses :
        FetchSettles(request, response)

FetchUsersNext ==
    \/ RunEffect
    \/ \E newUrl \in {UsersUrl, UsersUrl \o "?_page=2"} : Rerender(newUrl)
    \/ FetchDataSettles
    \/ refetch
    \/ Unmount

\* React runs an effect that is due, and fetch() settles.
SpecFetchUsers ==
    /\ Init
    /\ [][FetchUsersNext]_vars
    /\ WF_vars(RunEffect)
    /\ WF_vars(FetchDataSettles)

\* ------------------------------------------------ cartSlice (cartSlice.ts)
\* new Date().toISOString(): one string for every millisecond (here its
\* decimal digits, where the code writes the fields of the calendar).
toISOString(ms) == ToStr(ms)

\* The payloads: products (a CartItem without its quantity) and ids, one of
\* which no product has.
CartProducts ==
    {[id |-> "p1", name |-> "Laptop", price |-> 10],
     [id |-> "p2", name |-> "Mouse", price |-> 5]}

CartIds == {"p1", "p2", "p3"}

\* state.items.findIndex(item => item.id === id), counted from 1; 0 where
\* findIndex gives -1.
findIndex(cartItems, id) ==
    IF \E i \in 1..Len(cartItems) : cartItems[i].id = id
    THEN CHOOSE i \in 1..Len(cartItems) :
           /\ cartItems[i].id = id
           /\ \A j \in 1..(i - 1) : cartItems[j].id # id
    ELSE 0

\* The array with the quantity of its item at the index set.
WithQuantity(cartItems, index, quantity) ==
    [i \in 1..Len(cartItems) |->
        IF i = index
        THEN [id |-> cartItems[i].id, name |-> cartItems[i].name,
              price |-> cartItems[i].price, quantity |-> quantity]
        ELSE cartItems[i]]

\* state.items.splice(index, 1)
splice(cartItems, index) ==
    [i \in 1..(Len(cartItems) - 1) |->
        IF i < index THEN cartItems[i] ELSE cartItems[i + 1]]

\* state.items.filter(item => item.id !== id)
WithoutId(cartItems, id) == SelectSeq(cartItems, LAMBDA item : item.id # id)

\* The case reducers, on the state {items, lastUpdated} at the given time.
addItem(state, payload, time) ==
    LET index == findIndex(state.items, payload.id)
    IN  [items |->
            IF index # 0
            THEN WithQuantity(state.items, index,
                              state.items[index].quantity + 1)
            ELSE Append(state.items,
                        [id |-> payload.id, name |-> payload.name,
                         price |-> payload.price, quantity |-> 1]),
         lastUpdated |-> toISOString(time)]

addItemWithQuantity(state, payload, time) ==
    LET index == findIndex(state.items, payload.id)
    IN  [items |->
            IF index # 0
            THEN WithQuantity(state.items, index,
                              state.items[index].quantity + payload.quantity)
            ELSE Append(state.items, payload),
         lastUpdated |-> toISOString(time)]

\* A removeItem that takes one off the last unit too.
removeItemKeepingLast(state, payload, time) ==
    LET itemIndex == findIndex(state.items, payload)
    IN  IF itemIndex # 0
        THEN [items |-> WithQuantity(state.items, itemIndex,
                                     state.items[itemIndex].quantity - 1),
              lastUpdated |-> toISOString(time)]
        ELSE state

removeItem(state, payload, time) ==
    LET itemIndex == findIndex(state.items, payload)
    IN  IF itemIndex # 0
        THEN [items |->
                 IF state.items[itemIndex].quantity > 1
                 THEN WithQuantity(state.items, itemIndex,
                                   state.items[itemIndex].quantity - 1)
                 ELSE splice(state.items, itemIndex),
              lastUpdated |-> toISOString(time)]
        ELSE state

removeItemCompletely(state, payload, time) ==
    [items |-> WithoutId(state.items, payload),
     lastUpdated |-> toISOString(time)]

updateQuantity(state, payload, time) ==
    LET index == findIndex(state.items, payload.id)
    IN  IF index # 0
        THEN [items |->
                 IF payload.quantity <= 0
                 THEN WithoutId(state.items, payload.id)
                 ELSE WithQuantity(state.items, index, payload.quantity),
              lastUpdated |-> toISOString(time)]
        ELSE state

clearCart(state, time) ==
    [items |-> <<>>, lastUpdated |-> toISOString(time)]

\* The actions of the slice, with quantities of either sign.
CartActions ==
    {FetchAction("cart/addItem", product) : product \in CartProducts}
        \cup {FetchAction("cart/addItemWithQuantity",
                          [id |-> product.id, name |-> product.name,
                           price |-> product.price, quantity |-> quantity]) :
                 product \in CartProducts, quantity \in {-1, 0, 2}}
        \cup {FetchAction("cart/removeItem", id) : id \in CartIds}
        \cup {FetchAction("cart/removeItemCompletely", id) : id \in CartIds}
        \cup {FetchAction("cart/updateQuantity",
                          [id |-> id, quantity |-> quantity]) :
                 id \in CartIds, quantity \in {0, 3}}
        \cup {FetchAction("cart/clearCart", Null)}

cartReducer(state, action, time) ==
    CASE action.type = "cart/addItem" ->
           addItem(state, action.payload, time)
      [] action.type = "cart/addItemWithQuantity" ->
           addItemWithQuantity(state, action.payload, time)
      [] action.type = "cart/removeItem" ->
           removeItem(state, action.payload, time)
      [] action.type = "cart/removeItemCompletely" ->
           removeItemCompletely(state, action.payload, time)
      [] action.type = "cart/updateQuantity" ->
           updateQuantity(state, action.payload, time)
      [] action.type = "cart/clearCart" -> clearCart(state, time)
      [] OTHER -> state

\* What the reducers of the cart leave alone (the clock they read apart).
outsideCart ==
    <<ids, entities, status, error, filter, sortBy, sortOrder, thunks,
      nextRequestId, lastAction, user, token, isAuthenticated, isLoading,
      authError, localStorage, fetchVars, formVars, pageVars>>

DispatchCart(action) ==
    /\ Len(dispatched) < MaxActions
    /\ dispatched' = Append(dispatched, action)
    /\ LET next == cartReducer([items |-> items,
                                lastUpdated |-> lastUpdated], action, now)
       IN  /\ items' = next.items
           /\ lastUpdated' = next.lastUpdated
    /\ UNCHANGED now
    /\ UNCHANGED outsideCart

CartNext ==
    \/ \E action \in CartActions : DispatchCart(action)
    \/ Tick

SpecCart == Init /\ [][CartNext]_vars

\* ------------------------------------------------------------- LoginForm
\* What is typed into the fields, as sequences of characters.
Emails ==
    {<<>>, <<"a", "b">>, <<"a", "@", "b">>, <<"a", "@", ".", "c">>,
     <<"a", " ", "@", "b", ".", "c">>, <<"a", "@", "b", ".", "c">>}

Passwords ==
    {<<>>, <<"1", "2", "3", "4", "5">>, <<"1", "2", "3", "4", "5", "6">>}

\* /\S+@\S+\.\S+/.test(s): somewhere in s, characters that are no space,
\* an @, characters that are no space, a dot, a character that is no space.
EmailRegexTest(s) ==
    \E at \in 2..Len(s) :
        /\ s[at] = "@"
        /\ s[at - 1] # " "
        /\ \E dot \in (at + 2)..(Len(s) - 1) :
             /\ s[dot] = "."
             /\ \A k \in (at + 1)..(dot - 1) : s[k] # " "
             /\ s[dot + 1] # " "

\* A validate that does not look at the password.
validateEmailOnly(emailValue, passwordValue) ==
    [email |-> IF emailValue = <<>> THEN "Email is required"
               ELSE IF ~EmailRegexTest(emailValue) THEN "Email is invalid"
               ELSE Null,
     password |-> Null]

\* newErrors of validate(); a field it does not set is null.
validate(emailValue, passwordValue) ==
    [email |-> IF emailValue = <<>> THEN "Email is required"
               ELSE IF ~EmailRegexTest(emailValue) THEN "Email is invalid"
               ELSE Null,
     password |-> IF passwordValue = <<>> THEN "Password is required"
                  ELSE IF Len(passwordValue) < 6
                       THEN "Password must be at least 6 characters"
                  ELSE Null]

\* What the events of LoginForm leave alone.
outsideForm ==
    <<ids, entities, status, error, filter, sortBy, sortOrder, thunks,
      nextRequestId, now, lastAction, user, token, isAuthenticated,
      isLoading, authError, localStorage, fetchVars, cartVars, pageVars>>

\* onChange of the two fields.
SetEmail(value) ==
    /\ value # email
    /\ email' = value
    /\ UNCHANGED <<password, errors, formIsLoading, successMessage,
                   errorMessage, calls, awaited, dispatched>>
    /\ UNCHANGED outsideForm

SetPassword(value) ==
    /\ value # password
    /\ password' = value
    /\ UNCHANGED <<email, errors, formIsLoading, successMessage,
                   errorMessage, calls, awaited, dispatched>>
    /\ UNCHANGED outsideForm

\* handleSubmit up to its await.  The form is submitted from its button,
\* which is disabled while isLoading.
HandleSubmit ==
    /\ ~formIsLoading
    /\ Len(dispatched) < MaxActions
    /\ dispatched' = Append(dispatched, [type |-> "submit", payload |-> Null])
    /\ successMessage' = ""
    /\ errorMessage' = ""
    /\ errors' = validate(email, password)
    /\ IF validate(email, password) # [email |-> Null, password |-> Null]
       THEN UNCHANGED <<formIsLoading, calls, awaited>>
       ELSE /\ formIsLoading' = TRUE
            /\ calls' = Append(calls, [email |-> email,
                                       password |-> password])
            /\ awaited' = awaited \cup {Len(calls) + 1}
    /\ UNCHANGED <<email, password>>
    /\ UNCHANGED outsideForm

\* handleSubmit after its await: the handler (onSubmit, or defaultSubmit)
\* has returned the result, or has thrown, which is no result.
SubmitSettles(call, result) ==
    /\ call \in awaited
    /\ awaited' = awaited \ {call}
    /\ IF result = NullObject
       THEN /\ errorMessage' = "An error occurred. Please try again."
            /\ UNCHANGED <<successMessage, email, password>>
       ELSE IF result.success
       THEN /\ successMessage' = result.message
            /\ email' = <<>>
            /\ password' = <<>>
            /\ UNCHANGED errorMessage
       ELSE /\ errorMessage' = result.message
            /\ UNCHANGED <<successMessage, email, password>>
    /\ formIsLoading' = FALSE
    /\ UNCHANGED <<errors, calls, dispatched>>
    /\ UNCHANGED outsideForm

FormNext ==
    \/ \E value \in Emails : SetEmail(value)
    \/ \E value \in Passwords : SetPassword(value)
    \/ HandleSubmit
    \/ \E call \in awaited :
         \E result \in {[success |-> TRUE, message |-> "Welcome back!"],
                         [success |-> FALSE,
                          message |-> "Invalid credentials"],
                         NullObject} :
            SubmitSettles(call, result)

SpecForm == Init /\ [][FormNext]_vars

\* ------------------------------- the delete modal of InventoryPage
\* The page after its load: the products of a fulfilled fetchInventory are
\* in the store, the table is shown and the modal is closed.  Request ids
\* only tell apart the thunks in flight, and none is, so the numbering
\* starts over.
PageInit ==
    /\ \E count \in 1..MaxCount :
         \E products \in generateMockProducts(count, Epoch) :
            \E next \in setAll(EntityState, products) :
               /\ ids = next.ids
               /\ entities = next.entities
    /\ status = "succeeded"
    /\ error = Null
    /\ filter = initialFilter
    /\ sortBy = "name"
    /\ sortOrder = "asc"
    /\ thunks = {}
    /\ nextRequestId = 1
    /\ now = Epoch
    /\ lastAction = Action("inventory/fetchInventory/fulfilled", 0, Null)
    /\ AuthInitialState(Null)
    /\ ComponentsInitialState

\* What the handlers of the modal leave alone.
outsidePage ==
    <<user, token, isAuthenticated, isLoading, authError, localStorage,
      dispatched, fetchVars, cartVars, formVars>>

\* A handleDeleteConfirm whose await has ended is due to go on: it goes on
\* before any other event is handled.
ResumeDue ==
    \E requestId \in confirming :
        \A thunk \in thunks : thunk.requestId # requestId

\* The Delete button of a row of the table, which the overlay of an open
\* modal covers.
HandleDeleteClick(id) ==
    /\ ~ResumeDue
    /\ error = Null
    /\ status # "loading"
    /\ ~deleteModalOpen
    /\ id \in DOMAIN entities
    /\ productToDelete' = id
    /\ deleteModalOpen' = TRUE
    /\ UNCHANGED <<ids, entities, status, error, filter, sortBy, sortOrder,
                   now, thunks, nextRequestId, lastAction, confirming>>
    /\ UNCHANGED outsidePage

\* The Delete button of the modal, which is never given loading: up to the
\* await, handleDeleteConfirm dispatches deleteProduct(productToDelete).
HandleDeleteConfirm ==
    /\ ~ResumeDue
    /\ deleteModalOpen
    /\ productToDelete # NullArray
    /\ Start("inventory/deleteProduct", productToDelete)
    /\ confirming' = confirming \cup {nextRequestId}
    /\ UNCHANGED <<ids, entities, status, error, filter, sortBy, sortOrder,
                   now, deleteModalOpen, productToDelete>>
    /\ UNCHANGED outsidePage

\* The deleteProduct of a confirm is fulfilled.
ConfirmedDeleteFulfilled(thunk) ==
    /\ ~ResumeDue
    /\ DeleteProductFulfilled(thunk)

\* handleDeleteConfirm after its await.
ResumeDeleteConfirm(requestId) ==
    /\ requestId \in confirming
    /\ \A thunk \in thunks : thunk.requestId # requestId
    /\ confirming' = confirming \ {requestId}
    /\ deleteModalOpen' = FALSE
    /\ productToDelete' = NullArray
    /\ UNCHANGED <<ids, entities, status, error, filter, sortBy, sortOrder,
                   now, thunks, nextRequestId, lastAction>>
    /\ UNCHANGED outsidePage

\* onClose of the modal: its Cancel button, the Escape key and a click on
\* the overlay.
HandleDeleteCancel ==
    /\ ~ResumeDue
    /\ deleteModalOpen
    /\ deleteModalOpen' = FALSE
    /\ productToDelete' = NullArray
    /\ UNCHANGED <<ids, entities, status, error, filter, sortBy, sortOrder,
                   now, thunks, nextRequestId, lastAction, confirming>>
    /\ UNCHANGED outsidePage

PageNext ==
    \/ \E id \in DOMAIN entities : HandleDeleteClick(id)
    \/ HandleDeleteConfirm
    \/ \E thunk \in thunks : ConfirmedDeleteFulfilled(thunk)
    \/ \E requestId \in confirming : ResumeDeleteConfirm(requestId)
    \/ HandleDeleteCancel

SpecPage == PageInit /\ [][PageNext]_vars

\* ================================================================ claims
\* A thunk of the given type prefix settles in this step with the outcome.
Settles(typePrefix, outcome) ==
    /\ thunks' # thunks
    /\ lastAction'.type = typePrefix \o outcome

IdSet == {ids[i] : i \in 1..Len(ids)}

\* C1: in every reachable state, requestError (error) is null whenever
\* requestStatus (status) is not failed.
C1_ErrorNullUnlessFailed == status # "failed" => error = Null

\* The status rule of the data model, for a non-negative quantity.
StatusRule(quantity, minStock) ==
    IF quantity = 0 THEN "out-of-stock"
    ELSE IF 0 < quantity /\ quantity < minStock THEN "low-stock"
    ELSE "in-stock"

\* C2: every entity's status tag is the one its quantity and minStock
\* determine (stated for the quantities of the data model, which are not
\* negative).
C2_StatusFollowsRule ==
    \A id \in DOMAIN entities :
        entities[id].quantity >= 0 =>
            entities[id].status =
                StatusRule(entities[id].quantity, entities[id].minStock)

\* C3: the set of ids in order equals the set of keys of entities, and no
\* id occurs twice in order.
C3_IdsMatchEntities ==
    /\ IdSet = DOMAIN entities
    /\ \A i, j \in 1..Len(ids) : i # j => ids[i] # ids[j]

\* An update has moved the second loaded product onto the first one's id.
\* selectAll of the store in this state and in the next.
AllProducts == selectAll(Store)
AllProductsNext == selectAll([ids |-> ids', entities |-> entities'])

C3_Witness ==
    /\ lastAction.type = "inventory/updateProduct/fulfilled"
    /\ ids = <<FirstId>>
    /\ entities[FirstId].name = ProductWord \o ToStr(2)

\* C4: when a load resolves with a failure, entities and order are what
\* they were immediately before, status becomes failed and error holds the
\* failure message.
C4_FailedLoadKeepsEntities ==
    [][Settles("inventory/fetchInventory", "/rejected") =>
          /\ entities' = entities
          /\ ids' = ids
          /\ status' = "failed"
          /\ error' = NetworkError]_vars

\* A load has failed over a store that held two entities.
C4_Witness ==
    /\ lastAction.type = "inventory/fetchInventory/rejected"
    /\ Len(ids) = 2
    /\ status = "failed"
    /\ error = NetworkError

\* C5, as stated: load is the only operation with a suspend point, so no
\* add, update or remove is ever waiting between its invocation and its
\* effect.
C5_OnlyLoadSuspends ==
    \A thunk \in thunks : thunk.typePrefix = "inventory/fetchInventory"

\* C5, amended: updateStock takes effect in the step in which it is invoked;
\* invoking add, update or remove (or load) changes neither entities nor
\* order, and every change of entities or order is the whole effect of one
\* operation: of updateStock, or of the fulfilled action of one thunk.
C5_EffectsAreAtomic ==
    [][/\ (thunks' # thunks /\ thunks \subseteq thunks') =>
             (entities' = entities /\ ids' = ids)
       /\ (entities' # entities \/ ids' # ids) =>
             \/ lastAction'.type = "inventory/updateStock" /\ thunks' = thunks
             \/ \E thunk \in thunks :
                  /\ thunks' = thunks \ {thunk}
                  /\ lastAction' = Action(thunk.typePrefix \o "/fulfilled",
                                          thunk.requestId, Null)]_vars

\* While an add is waiting, the effect of a load has been applied.
C5_Witness ==
    /\ \E thunk \in thunks : thunk.typePrefix = "inventory/addProduct"
    /\ lastAction.type = "inventory/fetchInventory/fulfilled"
    /\ ids # <<>>

\* The entities are exactly the records of one generateMockProducts(count).
IsLoadOf(count, ents, order) ==
    /\ Cardinality(DOMAIN ents) = count
    /\ Len(order) = count
    /\ {order[i] : i \in 1..Len(order)} = DOMAIN ents
    /\ \A index \in 0..(count - 1) :
          \E draw \in RandomDraws :
             LET product == MockProduct(index, draw, now)
             IN  /\ product.id \in DOMAIN ents
                 /\ ents[product.id] = product

\* C6: the state after a load resolves is the one that load produces,
\* whichever loads were issued or resolved before it: if it succeeded,
\* entities and order are exactly its records and status is succeeded; if it
\* failed, status is failed and error is its message.
C6_LastResolvedLoadWins ==
    [][\A thunk \in thunks \ thunks' :
          thunk.typePrefix = "inventory/fetchInventory" =>
             IF lastAction'.type = "inventory/fetchInventory/fulfilled"
             THEN /\ status' = "succeeded"
                  /\ IsLoadOf(thunk.arg, entities', ids')
             ELSE /\ status' = "failed"
                  /\ error' = lastAction'.error
                  /\ error' = NetworkError]_vars

\* Two loads overlapped (the error of the first is still there, so the
\* second was pending when the first failed), and the second, which
\* resolved last, has set the state.
C6_Witness ==
    /\ lastAction.type = "inventory/fetchInventory/fulfilled"
    /\ lastAction.requestId = 2
    /\ thunks = {}
    /\ error = NetworkError
    /\ status = "succeeded"
    /\ Len(ids) = 2

\* C7, as stated: status changes only from idle, succeeded or failed to
\* loading, and from loading to succeeded or failed.
C7_StatusAlongLifecycle ==
    [][status' # status =>
          \/ status \in {"idle", "succeeded", "failed"} /\ status' = "loading"
          \/ status = "loading" /\ status' \in {"succeeded", "failed"}]_vars

\* C7, amended: status changes only by the actions of a load: the pending
\* action moves idle, succeeded or failed to loading, the fulfilled action
\* moves loading or failed to succeeded, the rejected action moves loading
\* or succeeded to failed (from succeeded or failed only when another load
\* resolved in between); status never leaves idle but to loading.
C7_StatusChangesByLoad ==
    [][status' # status =>
          \/ /\ lastAction'.type = "inventory/fetchInventory/pending"
             /\ status' = "loading"
          \/ /\ Settles("inventory/fetchInventory", "/fulfilled")
             /\ status \in {"loading", "failed"}
             /\ status' = "succeeded"
          \/ /\ Settles("inventory/fetchInventory", "/rejected")
             /\ status \in {"loading", "succeeded"}
             /\ status' = "failed"]_vars

\* A load has moved status from failed to succeeded directly: the error of
\* the failure, which a pending action would have cleared, is still there.
C7_Witness ==
    /\ status = "succeeded"
    /\ error # Null

\* C8: each add inserts its entity under an id that no entity of the store
\* has.
C8_AddAssignsFreshId ==
    [][\A thunk \in thunks \ thunks' :
          thunk.typePrefix = "inventory/addProduct" =>
             \E id \in DOMAIN entities' : id \notin DOMAIN entities]_vars

ValidDraft(productData) ==
    /\ productData.name # <<>>
    /\ productData.sku # <<>>
    /\ productData.category # ""
    /\ productData.price >= 0
    /\ productData.quantity >= 0

\* C9: an add whose draft has an empty required field or a negative price
\* or quantity reports a ValidationError and leaves the store unchanged.
C9_InvalidDraftRejected ==
    [][\A thunk \in thunks \ thunks' :
          (thunk.typePrefix = "inventory/addProduct"
             /\ ~ValidDraft(thunk.arg)) =>
             /\ lastAction'.error = "ValidationError"
             /\ entities' = entities
             /\ ids' = ids
             /\ status' = status
             /\ error' = error]_vars

\* C10: an update of an id that is not in the store, and an updateStock on
\* a store that holds no entity at all, report a NotFoundError and leave the
\* store unchanged.
C10_AbsentIdRejected ==
    [][/\ \A thunk \in thunks \ thunks' :
             (thunk.typePrefix = "inventory/updateProduct"
                /\ thunk.arg.id \notin DOMAIN entities) =>
                /\ lastAction'.error = "NotFoundError"
                /\ entities' = entities
                /\ ids' = ids
                /\ status' = status
                /\ error' = error
       /\ (lastAction'.type = "inventory/updateStock"
             /\ lastAction' # lastAction /\ entities = <<>>) =>
             /\ lastAction'.error = "NotFoundError"
             /\ entities' = entities
             /\ ids' = ids]_vars

\* The id occurs in the sequence of ids.
InOrder(id, order) == \E i \in 1..Len(order) : order[i] = id

\* C11: when a remove takes effect, its id is in neither entities nor order
\* afterwards, allEntities() does not contain it, and every other entity is
\* what it was; a remove of an id that is not in the store reports no error
\* and changes neither entities nor order (so the count stays).
C11_RemoveTakesEffect ==
    [][\A thunk \in thunks \ thunks' :
          thunk.typePrefix = "inventory/deleteProduct" =>
             /\ lastAction'.type = "inventory/deleteProduct/fulfilled"
             /\ lastAction'.error = Null
             /\ thunk.arg \notin DOMAIN entities'
             /\ ~InOrder(thunk.arg, ids')
             /\ \A i \in 1..Len(AllProductsNext) :
                   AllProductsNext[i].id # thunk.arg
             /\ \A id \in (DOMAIN entities) \ {thunk.arg} :
                   id \in DOMAIN entities' /\ entities'[id] = entities[id]
             /\ thunk.arg \notin DOMAIN entities =>
                   /\ entities' = entities
                   /\ ids' = ids
                   /\ Len(AllProductsNext) = Len(AllProducts)]_vars

SecondId == PROD \o PadStart(ToStr(2), IdPadLength, "0")

\* Of the two loaded products the first has been removed.
C11_Witness ==
    /\ lastAction.type = "inventory/deleteProduct/fulfilled"
    /\ ids = <<SecondId>>
    /\ DOMAIN entities = {SecondId}

InventoryMutations ==
    {"inventory/addProduct/pending", "inventory/addProduct/fulfilled",
     "inventory/updateProduct/pending", "inventory/updateProduct/fulfilled",
     "inventory/deleteProduct/pending", "inventory/deleteProduct/fulfilled",
     "inventory/updateStock"}

ViewReducers ==
    {"inventory/setFilter", "inventory/clearFilters", "inventory/setSort"}

\* C12: no action of add, update, remove or updateStock changes status,
\* error, filter or sort, whatever status is; setFilter, clearFilters and
\* setSort report no error and change neither entities, order, status nor
\* error.
C12_FrameOfMutationsAndViews ==
    [][/\ lastAction'.type \in InventoryMutations =>
             /\ status' = status
             /\ error' = error
             /\ filter' = filter
             /\ sortBy' = sortBy
             /\ sortOrder' = sortOrder
       /\ lastAction'.type \in ViewReducers =>
             /\ lastAction'.error = Null
             /\ entities' = entities
             /\ ids' = ids
             /\ status' = status
             /\ error' = error]_vars

\* An add has taken effect while a load was in flight, under a filter that
\* was set before.
C12_Witness ==
    /\ lastAction.type = "inventory/addProduct/fulfilled"
    /\ status = "loading"
    /\ ids # <<>>
    /\ filter # initialFilter

\* C13: in every reachable state, allEntities() is sorted by the comparator
\* (no entity is followed by one that the comparator puts before it), and
\* order is the ids of allEntities() in that order.
C13_OrderIsSorted ==
    /\ \A i, j \in 1..Len(AllProducts) :
          i < j => sortComparer(AllProducts[i], AllProducts[j]) <= 0
    /\ ids = [i \in 1..Len(AllProducts) |-> selectId(AllProducts[i])]

\* An update has renamed the first loaded product, which moved it behind
\* the second.
C13_Witness ==
    /\ lastAction.type = "inventory/updateProduct/fulfilled"
    /\ ids = <<SecondId, FirstId>>
    /\ entities[FirstId].name = <<"X">>

\* The ids of the records of generateMockProducts(count).
LoadedIds(count) ==
    {PROD \o PadStart(ToStr(index + 1), IdPadLength, "0") :
        index \in 0..(count - 1)}

\* C14: when a load resolves with success, status is succeeded, entities
\* and order hold exactly the ids of that load, each entity is a record
\* generated by that load, and every entity that was in the store before
\* under another id (a loaded, updated or added one) is gone.
C14_LoadReplacesCollection ==
    [][\A thunk \in thunks \ thunks' :
          (thunk.typePrefix = "inventory/fetchInventory"
             /\ lastAction'.type = "inventory/fetchInventory/fulfilled") =>
             /\ status' = "succeeded"
             /\ DOMAIN entities' = LoadedIds(thunk.arg)
             /\ Len(ids') = thunk.arg
             /\ \A id \in LoadedIds(thunk.arg) : InOrder(id, ids')
             /\ \A id \in DOMAIN entities' :
                   \E index \in 0..(thunk.arg - 1), draw \in RandomDraws :
                      entities'[id] = MockProduct(index, draw, now)
             /\ \A id \in (DOMAIN entities) \ LoadedIds(thunk.arg) :
                   id \notin DOMAIN entities' /\ ~InOrder(id, ids')]_vars

\* The load issued first has resolved with two records after the request
\* issued during its flight (an add, update or remove: only these have a
\* shorter timer) had taken effect.
C14_Witness ==
    /\ lastAction.type = "inventory/fetchInventory/fulfilled"
    /\ lastAction.requestId = 1
    /\ nextRequestId = 3
    /\ thunks = {}
    /\ status = "succeeded"
    /\ DOMAIN entities = {FirstId, SecondId}

\* statistics() in this state and in the next.
Stats == selectInventoryStats(Store, filter)
StatsNext ==
    selectInventoryStats([ids |-> ids', entities |-> entities'], filter')

\* This step is updateStock({id, quantity}) on an id of the store.
UpdatesStock(id, quantity) ==
    /\ id \in DOMAIN entities
    /\ lastAction'.type = "inventory/updateStock"
    /\ lastAction'.payload = [id |-> id, quantity |-> quantity]
    /\ lastAction' # lastAction \/ entities' # entities

\* C15, as stated: updateStock(id, 0) on any entity of the store makes its
\* status out-of-stock and increments statistics().outOfStock by exactly 1.
C15_ZeroIncrementsOutOfStock ==
    [][\A id \in DOMAIN entities :
          UpdatesStock(id, 0) =>
             /\ entities'[id].status = "out-of-stock"
             /\ StatsNext.outOfStock = Stats.outOfStock + 1]_vars

\* C15, amended: updateStock(id, 0) makes the entity's status out-of-stock;
\* statistics().outOfStock increments by exactly 1 when the entity's status
\* was not out-of-stock before, and stays as it is when it was.
C15_ZeroCountsEntityOnce ==
    [][\A id \in DOMAIN entities :
          UpdatesStock(id, 0) =>
             /\ entities'[id].status = "out-of-stock"
             /\ StatsNext.outOfStock =
                   Stats.outOfStock
                     + (IF entities[id].status = "out-of-stock" THEN 0
                        ELSE 1)]_vars

\* updateStock(FirstId, 0) has acted on a store of two loaded products, and
\* the first is the only one out of stock.
C15_Witness ==
    /\ lastAction.type = "inventory/updateStock"
    /\ lastAction.payload = [id |-> FirstId, quantity |-> 0]
    /\ Len(ids) = 2
    /\ entities[FirstId].status = "out-of-stock"
    /\ Stats.outOfStock = 1

\* The rule in the words of C16: quantity 0 is out-of-stock, a quantity
\* below minStock is low-stock, any other is in-stock.
StatusFor(quantity, minStock) ==
    IF quantity = 0 THEN "out-of-stock"
    ELSE IF quantity < minStock THEN "low-stock"
    ELSE "in-stock"

ContainsIgnoringCase(text, term) ==
    \E start \in 1..(Len(text) - Len(term) + 1) :
        \A k \in 1..Len(term) :
            LowerChar(text[start + k - 1]) = LowerChar(term[k])

\* The three predicates of the filter, AND-combined.
Matches(product, flt) ==
    /\ flt.category = "all" \/ product.category = flt.category
    /\ flt.status = "all" \/ product.status = flt.status
    /\ \/ flt.searchTerm = <<>>
       \/ ContainsIgnoringCase(product.name, flt.searchTerm)
       \/ ContainsIgnoringCase(product.sku, flt.searchTerm)

FilteredProducts == selectFilteredProducts(Store, filter)

\* C17: in every state, filteredEntities() is allEntities() without the
\* entities that fail one of the three predicates, the others in the order
\* they have in allEntities(); under the filter {all, all, ""} it is
\* allEntities().
C17_FilteredIsMatchingSubsequence ==
    /\ FilteredProducts =
          SelectSeq(AllProducts, LAMBDA product : Matches(product, filter))
    /\ filter = initialFilter => FilteredProducts = AllProducts

\* Of a loaded product and an added one named "X", the search term "x"
\* keeps the added one alone.
C17_Witness ==
    /\ filter.searchTerm = <<"x">>
    /\ Len(AllProducts) = 2
    /\ Len(FilteredProducts) = 1
    /\ FilteredProducts[1].name = <<"X">>

\* C18: in every state statistics().total is the number of entities and
\* each status bucket counts the entities with that status, whatever the
\* filter is: statistics() is what it is under the cleared filter, so no
\* setFilter or clearFilters changes it.
C18_StatsOverAllEntities ==
    LET stats == Stats
        counted(tag) == Cardinality({id \in DOMAIN entities :
                                       entities[id].status = tag})
    IN  /\ stats.total = Cardinality(DOMAIN entities)
        /\ stats.inStock = counted("in-stock")
        /\ stats.lowStock = counted("low-stock")
        /\ stats.outOfStock = counted("out-of-stock")
        /\ stats = selectInventoryStats(Store, initialFilter)

\* A filter that hides one of two entities has been set, and the total is
\* still two.
C18_Witness ==
    /\ lastAction.type = "inventory/setFilter"
    /\ Len(FilteredProducts) = 1
    /\ Stats.total = 2

\* C19: invoking load in a state whose status is failed sets status to
\* loading and error to null; and when the caller retries after every
\* failure and loads do not fail forever, every state whose status is
\* failed is followed by one whose status is succeeded and whose error is
\* null.
C19_FailedLoadRecovers ==
    /\ [][(status = "failed"
             /\ thunks' # thunks
             /\ lastAction'.type = "inventory/fetchInventory/pending") =>
            (status' = "loading" /\ error' = Null)]_vars
    /\ (status = "failed") ~> (status = "succeeded" /\ error = Null)

\* A retry (its request id is the one after the first load's) has
\* succeeded.
C19_Witness ==
    /\ lastAction.type = "inventory/fetchInventory/fulfilled"
    /\ lastAction.requestId = 2
    /\ status = "succeeded"
    /\ error = Null
    /\ ids # <<>>

\* C20: when login.fulfilled is applied, whatever logins and logouts were
\* requested or resolved before it, isLoading is false, isAuthenticated is
\* true, user and token are those of the response, and error is null.
C20_LoginFulfilledAuthenticates ==
    [][\A thunk \in thunks \ thunks' :
          lastAction'.type = "auth/login/fulfilled" =>
             /\ isLoading' = FALSE
             /\ isAuthenticated' = TRUE
             /\ user' = LoginResponse(thunk.arg).user
             /\ token' = LoginResponse(thunk.arg).token
             /\ authError' = Null]_vars

\* C21: when login.rejected or logout.fulfilled is applied, isAuthenticated
\* is false afterwards and user and token are null; after login.rejected
\* error is the rejection message and isLoading is false.
C21_FailureAndLogoutUnauthenticate ==
    [][(thunks' # thunks
          /\ lastAction'.type \in {"auth/login/rejected",
                                   "auth/logout/fulfilled"}) =>
          /\ isAuthenticated' = FALSE
          /\ user' = NullObject
          /\ token' = Null
          /\ lastAction'.type = "auth/login/rejected" =>
                /\ authError' = lastAction'.error
                /\ authError' = InvalidCredentials
                /\ isLoading' = FALSE]_vars

\* A login has failed in a session that was authenticated (its token is
\* still in localStorage).
C21_Witness ==
    /\ lastAction.type = "auth/login/rejected"
    /\ localStorage # Null
    /\ isAuthenticated = FALSE
    /\ user = NullObject
    /\ token = Null
    /\ authError = InvalidCredentials

\* C22, as stated: PrivateRoute renders its children only when
\* isAuthenticated is true and, where requiredRole is given, there is a
\* user whose role is at or above requiredRole; it renders the redirect to
\* /login whenever isAuthenticated is false, and the redirect to
\* /unauthorized for an authenticated user whose role is below requiredRole.
C22_ChildrenOnlyForRole ==
    \A requiredRole \in RequiredRoles :
        /\ PrivateRoute(requiredRole) = Children =>
              /\ isAuthenticated
              /\ requiredRole # Null =>
                    /\ user # NullObject
                    /\ roleHierarchy[user.role] >= roleHierarchy[requiredRole]
        /\ ~isAuthenticated => PrivateRoute(requiredRole) = "/login"
        /\ (isAuthenticated /\ requiredRole # Null /\ user # NullObject
               /\ roleHierarchy[user.role] < roleHierarchy[requiredRole]) =>
              PrivateRoute(requiredRole) = "/unauthorized"

\* The role a session counts as: the user's, or "user" when the session
\* has no user (a token restored from localStorage).
SessionRole == IF user = NullObject THEN "user" ELSE user.role

\* C22, amended: PrivateRoute renders its children exactly when
\* isAuthenticated is true and, where requiredRole is given, the session's
\* role is at or above it, a session without a user counting as "user"; it
\* renders the redirect to /login exactly when isAuthenticated is false,
\* and the redirect to /unauthorized in every other case.
C22_ChildrenForSessionRole ==
    \A requiredRole \in RequiredRoles :
        LET allowed == requiredRole = Null
                         \/ roleHierarchy[SessionRole]
                               >= roleHierarchy[requiredRole]
        IN  /\ PrivateRoute(requiredRole) = Children <=>
                  (isAuthenticated /\ allowed)
            /\ PrivateRoute(requiredRole) = "/login" <=> ~isAuthenticated
            /\ PrivateRoute(requiredRole) = "/unauthorized" <=>
                  (isAuthenticated /\ ~allowed)

\* A manager is shown the children of a route for managers and is sent to
\* /unauthorized by a route for admins.
C22_Witness ==
    /\ isAuthenticated
    /\ user # NullObject
    /\ user.role = "manager"
    /\ PrivateRoute("manager") = Children
    /\ PrivateRoute("admin") = "/unauthorized"

\* An auth request (login or logout) is in flight.
AuthRequestInFlight ==
    \E thunk \in thunks : thunk.typePrefix \in {"auth/login", "auth/logout"}

\* C26: whenever the state's token is null and no request is in flight,
\* localStorage holds no token, so that initialState computed from
\* localStorage would not be authenticated.
C26_NoTokenLeftInStorage ==
    (token = Null /\ ~AuthRequestInFlight) =>
        localStorage = Null

\* C30: in every state, isLoading is true exactly when a login or logout
\* request is in flight.
C30_LoadingWhileInFlight == isLoading <=> AuthRequestInFlight

\* The reducer of an exercise has just reduced the action.
Reduces(action) ==
    /\ Len(dispatched') = Len(dispatched) + 1
    /\ dispatched'[Len(dispatched')] = action

\* C23: FETCH_INIT moves idle, resolved and rejected to loading and leaves
\* loading unchanged; FETCH_SUCCESS and FETCH_FAILURE change the state only
\* when the status is loading, to resolved with the data and to rejected
\* with the error, and leave every other state unchanged; RESET returns any
\* state to idle.
C23_DocumentedTransitionsOnly ==
    [][\A action \in FetchActions :
          Reduces(action) =>
             CASE action.type = "FETCH_INIT" ->
                    IF fetchState.status \in {"idle", "resolved", "rejected"}
                    THEN fetchState'.status = "loading"
                    ELSE fetchState' = fetchState
               [] action.type = "FETCH_SUCCESS" ->
                    IF fetchState.status = "loading"
                    THEN /\ fetchState'.status = "resolved"
                         /\ fetchState'.data = action.payload
                    ELSE fetchState' = fetchState
               [] action.type = "FETCH_FAILURE" ->
                    IF fetchState.status = "loading"
                    THEN /\ fetchState'.status = "rejected"
                         /\ fetchState'.error = action.payload
                    ELSE fetchState' = fetchState
               [] action.type = "RESET" ->
                    fetchState'.status = "idle"]_vars

\* A load was rejected, and the FETCH_SUCCESS dispatched after it has left
\* the state rejected.
C23_Witness ==
    /\ Len(dispatched) = 3
    /\ dispatched[1].type = "FETCH_INIT"
    /\ dispatched[2].type = "FETCH_FAILURE"
    /\ dispatched[3].type = "FETCH_SUCCESS"
    /\ fetchState.status = "rejected"
    /\ fetchState.error = dispatched[2].payload

\* The hook after refetch: the state is idle and no effect is due.
AfterRefetch ==
    /\ mounted
    /\ fetchState.status = "idle"
    /\ ~effectPending

\* C28: after refetch the status eventually becomes loading again, for as
\* long as the component stays mounted.
C28_RefetchStartsFetch ==
    AfterRefetch ~> (fetchState.status = "loading" \/ ~mounted)

\* The items of the cart that have the id.
ItemsOf(cartItems, id) ==
    {i \in 1..Len(cartItems) : cartItems[i].id = id}

\* The second array is the first with the quantity of the item at the
\* index changed by the difference, and nothing else.
QuantityChanged(before, after, index, difference) ==
    /\ Len(after) = Len(before)
    /\ after[index].quantity = before[index].quantity + difference
    /\ after[index].id = before[index].id
    /\ \A i \in 1..Len(before) : i # index => after[i] = before[i]

\* The second array is the first without the item at the index.
ItemRemoved(before, after, index) ==
    /\ Len(after) = Len(before) - 1
    /\ \A i \in 1..Len(after) :
         after[i] = IF i < index THEN before[i] ELSE before[i + 1]

\* addItem(p): the item of p's id gets one more, or p is appended with
\* quantity 1.
AddItemAsStated ==
    \A product \in CartProducts :
        Reduces(FetchAction("cart/addItem", product)) =>
            IF ItemsOf(items, product.id) # {}
            THEN \E index \in ItemsOf(items, product.id) :
                   QuantityChanged(items, items', index, 1)
            ELSE items' = Append(items,
                                 [id |-> product.id, name |-> product.name,
                                  price |-> product.price, quantity |-> 1])

C29_UniqueIdsPositiveQuantities ==
    /\ \A i, j \in 1..Len(items) : items[i].id = items[j].id => i = j
    /\ \A i \in 1..Len(items) : items[i].quantity >= 1

\* The form is submitted in this step.
Submits == Len(dispatched') = Len(dispatched) + 1

\* The string is of the form x@y.z: it holds an x, a y and a z that are
\* not empty and have no space, joined by an @ and a dot.
OfTheFormXAtYDotZ(s) ==
    \E from \in 1..Len(s), to \in 1..Len(s) :
        \E x, y, z \in 1..Len(s) :
            /\ to - from + 1 = x + y + z + 2
            /\ \A k \in from..to :
                 CASE k = from + x -> s[k] = "@"
                   [] k = from + x + 1 + y -> s[k] = "."
                   [] OTHER -> s[k] # " "

EmailPasses == email # <<>> /\ OfTheFormXAtYDotZ(email)
PasswordPasses == Len(password) >= 6

\* C25: the submit handler is called only by a submit whose input passes
\* validation; a submit with invalid input calls no handler, leaves
\* isLoading false and sets the validation error of each invalid field.
C25_HandlerOnlyOnValidInput ==
    [][/\ calls' # calls => Submits /\ EmailPasses /\ PasswordPasses
       /\ Submits /\ ~(EmailPasses /\ PasswordPasses) =>
            /\ calls' = calls
            /\ ~formIsLoading /\ ~formIsLoading'
            /\ ~EmailPasses => errors'.email # Null
            /\ ~PasswordPasses => errors'.password # Null
            /\ EmailPasses => errors'.email = Null
            /\ PasswordPasses => errors'.password = Null]_vars

\* After a call of the handler on valid input, a submit with an email that
\* has no dot and a short password has set both errors and called nothing.
C25_Witness ==
    /\ Len(dispatched) = 2
    /\ Len(calls) = 1
    /\ email = <<"a", "@", "b">>
    /\ Len(password) = 5
    /\ errors.email = "Email is invalid"
    /\ errors.password = "Password must be at least 6 characters"
    /\ ~formIsLoading

\* The confirmed deletes in flight.
DeletesInFlight ==
    {thunk \in thunks : thunk.typePrefix = "inventory/deleteProduct"}

\* C27: while a confirmed delete is in flight it is the only one, and the
\* modal stays open on its product: no second confirm and no cancel is
\* accepted, and the modal closes only after the delete has taken effect.
C27_OneDeletePerOpening ==
    /\ Cardinality(DeletesInFlight) <= 1
    /\ \A thunk \in DeletesInFlight :
         deleteModalOpen /\ productToDelete = thunk.arg

=============================================================================
